---- MODULE Spec2Model ----
(***************************************************************************)
(* Bounce fleet dashboard (src/dashboard.py): one Streamlit script that is *)
(* run top to bottom on every interaction.  The model follows one script   *)
(* run through its clock reads: the top of the script up to the high-risk  *)
(* selection (lines 146-391), the risk-reason tagging and KPIs (393-445),  *)
(* the "Send Alerts" block (501-600) and the two SMS send loops.  Session  *)
(* state (st.session_state) and the wall clock persist between runs.       *)
(***************************************************************************)
EXTENDS Integers, Sequences, FiniteSets, TLC

(* ------------------------------ bounds -------------------------------- *)
\* longest fleet snapshot explored
MaxUnits == 2
\* the wall clock runs from 0 (data generation) to MaxClock ticks
MaxClock == 2

(* ------------------------- program constants -------------------------- *)
\* for i in range(3): three manager phone inputs
NumManagers == 3
\* fault_reports >= 3
FaultLimit == 3
\* uptime_percentage < 85
UptimeLimit == 85
\* .dt.days counts whole days: ticks of the modelled clock in one day
TicksPerDay == 2

(* ------------------------------ inputs -------------------------------- *)
\* text typed into a phone input: empty, or a number with country code
Phones == {"", "+1000", "+1001"}
\* text typed into the Account SID / Auth Token inputs
Sids == {"", "ACxx"}
Tokens == {"", "tok"}
TwilioNumber == "+1555"
\* slider positions explored (sliders range over 10..50 and 30..90)
BatteryThresholds == {10, 20}
ServiceDays == {30, 60}

\* A row of df_scooters.  last_service is a clock value: generation time (0)
\* minus a whole number of days.
Unit(id, hub, status, battery, faults, uptime, days, revenue) ==
    [scooter_id |-> id, hub |-> hub, status |-> status, battery_level |-> battery,
     fault_reports |-> faults, uptime_percentage |-> uptime,
     last_service |-> 0 - days * TicksPerDay, revenue_today |-> revenue]

UnitPool ==
    << Unit("BNC0001", "Koramangala Hub", "On Trip", 15, 1, 92, 40, 100),
       Unit("BNC0002", "Whitefield Hub", "Available", 50, 4, 80, 70, 50),
       Unit("BNC0003", "Koramangala Hub", "On Trip", 15, 3, 92, 60, 0),
       Unit("BNC0004", "Whitefield Hub", "Maintenance", 90, 0, 95, 60, 20),
       Unit("BNC0005", "Koramangala Hub", "Alert", 20, 2, 85, 30, 30),
       Unit("BNC0006", "Koramangala Hub", "Available", 90, 0, 95, 20, 80) >>

\* the sub-sequences of UnitPool (ids ascending, as generated) of 1..n rows
RECURSIVE SubSeqsFrom(_, _)
SubSeqsFrom(i, n) ==
    IF n = 0 \/ i > Len(UnitPool) THEN {<< >>}
    ELSE SubSeqsFrom(i + 1, n)
         \cup { <<UnitPool[i]>> \o s : s \in SubSeqsFrom(i + 1, n - 1) }

Fleets == SubSeqsFrom(1, MaxUnits) \ {<< >>}
\* the snapshots explored when the twilio package is installed: one with a
\* flaggable unit, one that no threshold flags (risk evaluation does not read
\* TWILIO_AVAILABLE; every fleet is explored without the package)
DemoFleets == { <<UnitPool[1], UnitPool[6]>>, <<UnitPool[6]>> }

VARIABLES
    TWILIO_AVAILABLE,    \* set at import (lines 13-17)
    df_scooters,         \* cached sample data (line 139)
    now,                 \* the wall clock, datetime.datetime.now()
    twilio_configured,   \* st.session_state.twilio_configured: << >> absent, <<b>> set
    twilio_creds,        \* st.session_state.twilio_creds: << >> absent, <<record>> set
    pc,                  \* position of the running script; "idle" between runs
    manager_input,       \* the three "Manager i Phone" inputs of this run
    filtered_scooters,   \* line 200
    battery_threshold,   \* line 185
    service_days,        \* line 192
    metrics,             \* lines 209-213, 241, 320
    avg_uptime,          \* line 440: << >> before it is computed
    high_risk,           \* lines 386-399
    alert_summary,       \* lines 503-520: << >> when not composed
    all_clear_msg,       \* lines 576-587: << >> when not composed
    sidebar,             \* what the run has written to the sidebar, in order
    rendered,            \* the action buttons the run has drawn
    pressed,             \* the buttons that read True in this run
    idx,                 \* position of the send loop in creds['manager_phones']
    sent_count,          \* line 533
    failed_count,        \* line 534
    transport,           \* calls of client.messages.create, in order
    clicked,             \* the button whose click caused this run, where tracked
    entered              \* the Twilio text inputs of this run, where tracked

vars == << TWILIO_AVAILABLE, df_scooters, now, twilio_configured, twilio_creds, pc,
           manager_input, filtered_scooters, battery_threshold, service_days,
           metrics, avg_uptime, high_risk, alert_summary, all_clear_msg, sidebar,
           rendered, pressed, idx, sent_count, failed_count, transport,
           clicked, entered >>

(* ------------------------------ helpers ------------------------------- *)
\* truth value of a Python str
Truthy(s) == s # ""

RECURSIVE SumSeq(_)
SumSeq(nums) == IF nums = << >> THEN 0 ELSE Head(nums) + SumSeq(Tail(nums))

Range(s) == { s[i] : i \in 1..Len(s) }

\* df[name]: one column of a frame
Column(df, name) == [i \in 1..Len(df) |-> df[i][name]]

\* Series.mean(): sum / count as a fraction; 0/0 is what pandas reports as NaN
Mean(col) == [num |-> SumSeq(col), den |-> Len(col)]
IsNaN(m) == m.den = 0

(* ------------------- Twilio configuration (146-174) ------------------- *)
\* lines 157-162: keep the inputs that are truthy, in manager order
ManagerPhones(inputs) == SelectSeq(inputs, Truthy)

\* lines 165-174
ConfiguredAfter(sid, token) == IF Truthy(sid) /\ Truthy(token) THEN <<TRUE>> ELSE <<FALSE>>

\* a store that writes the credentials once and keeps them afterwards
CredsAfter_KeepStored(sid, token, phone, inputs, old) ==
    IF Truthy(sid) /\ Truthy(token) /\ old = << >>
    THEN << [account_sid |-> sid, auth_token |-> token, phone_number |-> phone,
             manager_phones |-> ManagerPhones(inputs)] >>
    ELSE old

CredsAfter(sid, token, phone, inputs, old) ==
    IF Truthy(sid) /\ Truthy(token)
    THEN << [account_sid |-> sid, auth_token |-> token, phone_number |-> phone,
             manager_phones |-> ManagerPhones(inputs)] >>
    ELSE old

(* ------------------------ aggregation (200-247) ----------------------- *)
\* line 200
FilterByHubs(df, hubs) == LET In(u) == u.hub \in hubs IN SelectSeq(df, In)

CountStatus(df, st) == LET Is(u) == u.status = st IN Len(SelectSeq(df, Is))

\* line 213: a percentage, kept as a fraction
UtilizationRate(active, total) ==
    IF total > 0 THEN [num |-> active * 100, den |-> total] ELSE [num |-> 0, den |-> 1]

\* lines 320-324: groupby('hub') count / mean / sum
HubStats(df) ==
    [ h \in { u.hub : u \in Range(df) } |->
        LET rows == FilterByHubs(df, {h})
        IN [Scooters |-> Len(rows),
            Uptime |-> Mean(Column(rows, "uptime_percentage")),
            Revenue |-> SumSeq(Column(rows, "revenue_today"))] ]

Metrics(df) ==
    LET total == Len(df)
        active == CountStatus(df, "On Trip")
    IN [total_fleet |-> total,
        active_scooters |-> active,
        available_scooters |-> CountStatus(df, "Available"),
        maintenance_scooters |-> CountStatus(df, "Maintenance"),
        utilization_rate |-> UtilizationRate(active, total),
        avg_revenue |-> Mean(Column(df, "revenue_today")),
        hub_stats |-> HubStats(df)]

(* ----------------------- risk evaluation (386-399) -------------------- *)
\* (datetime.datetime.now() - last_service).dt.days
DaysSince(t, last_service) == (t - last_service) \div TicksPerDay

LowBattery(u, bt) == u.battery_level < bt
MultipleFaults(u) == u.fault_reports >= FaultLimit
LowUptime(u) == u.uptime_percentage < UptimeLimit
ServiceDue(u, sd, t) == DaysSince(t, u.last_service) > sd

\* lines 386-391
IsHighRisk(u, bt, sd, t) ==
    LowBattery(u, bt) \/ MultipleFaults(u) \/ LowUptime(u) \/ ServiceDue(u, sd, t)

HighRisk(df, bt, sd, t) == LET Hit(u) == IsHighRisk(u, bt, sd, t) IN SelectSeq(df, Hit)

\* the reason of the first condition that matches, and no other
RiskReason_FirstOnly(u, bt, sd, t) ==
    IF LowBattery(u, bt) THEN <<"Low Battery; ">>
    ELSE IF MultipleFaults(u) THEN <<"Multiple Faults; ">>
    ELSE IF LowUptime(u) THEN <<"Low Uptime; ">>
    ELSE IF ServiceDue(u, sd, t) THEN <<"Service Due; ">>
    ELSE << >>

\* lines 395-399: the string built by the four += steps, as its pieces
RiskReason(u, bt, sd, t) ==
    (IF LowBattery(u, bt) THEN <<"Low Battery; ">> ELSE << >>)
    \o (IF MultipleFaults(u) THEN <<"Multiple Faults; ">> ELSE << >>)
    \o (IF LowUptime(u) THEN <<"Low Uptime; ">> ELSE << >>)
    \o (IF ServiceDue(u, sd, t) THEN <<"Service Due; ">> ELSE << >>)

\* a row of high_risk: the unit and, once tagged, its risk_reason column
Row(u, reason) == [unit |-> u, risk_reason |-> reason]
Untagged == << >>

SelectRows(df, bt, sd, t) ==
    [ i \in 1..Len(HighRisk(df, bt, sd, t)) |-> Row(HighRisk(df, bt, sd, t)[i], Untagged) ]

TagRows(rows, bt, sd, t) ==
    [ i \in 1..Len(rows) |-> Row(rows[i].unit, RiskReason(rows[i].unit, bt, sd, t)) ]

(* ------------------------------- state -------------------------------- *)
NoMetrics == Metrics(<< >>)

Init ==
    /\ TWILIO_AVAILABLE \in BOOLEAN
    /\ df_scooters \in (IF TWILIO_AVAILABLE THEN DemoFleets ELSE Fleets)
    /\ now = 0
    /\ twilio_configured = << >>
    /\ twilio_creds = << >>
    /\ pc = "idle"
    /\ manager_input = [i \in 1..NumManagers |-> ""]
    /\ filtered_scooters = << >>
    /\ battery_threshold = 20
    /\ service_days = 60
    /\ metrics = NoMetrics
    /\ avg_uptime = << >>
    /\ high_risk = << >>
    /\ alert_summary = << >>
    /\ all_clear_msg = << >>
    /\ sidebar = << >>
    /\ rendered = {}
    /\ pressed = {}
    /\ idx = 0
    /\ sent_count = 0
    /\ failed_count = 0
    /\ transport = << >>
    /\ clicked = "none"
    /\ entered = << >>

\* the clock advances at any moment, also between two statements of a run
Tick ==
    /\ now < MaxClock
    /\ now' = now + 1
    /\ UNCHANGED << clicked, entered, TWILIO_AVAILABLE, df_scooters, twilio_configured, twilio_creds, pc,
                    manager_input, filtered_scooters, battery_threshold, service_days,
                    metrics, avg_uptime, high_risk, alert_summary, all_clear_msg,
                    sidebar, rendered, pressed, idx, sent_count, failed_count,
                    transport >>

\* the Account SID, Auth Token and Twilio Phone Number a run may find typed
Entries == [account_sid : Sids, auth_token : Tokens, phone_number : {TwilioNumber}]
Sliders == BatteryThresholds \X ServiceDays

\* lines 139-391: a rerun starts; configuration, filters, metrics, selection.
\* click is what caused the rerun, entries and sliders the widget values the
\* run may find; track keeps the text inputs of the run for later comparison.
Top(click, entries, sliders, track) ==
    /\ pc = "idle"
    /\ \E e \in entries, inputs \in [1..NumManagers -> Phones] :
         IF TWILIO_AVAILABLE
         THEN /\ manager_input' = inputs
              /\ entered' = IF track THEN <<e>> ELSE << >>
              /\ twilio_configured' = ConfiguredAfter(e.account_sid, e.auth_token)
              /\ twilio_creds' = CredsAfter(e.account_sid, e.auth_token, e.phone_number,
                                            inputs, twilio_creds)
         ELSE /\ manager_input' = [i \in 1..NumManagers |-> ""]
              /\ entered' = << >>
              /\ UNCHANGED << twilio_configured, twilio_creds >>
    /\ \E hubs \in SUBSET { u.hub : u \in Range(df_scooters) } :
         filtered_scooters' = FilterByHubs(df_scooters, hubs)
    /\ \E sl \in sliders :
         /\ battery_threshold' = sl[1]
         /\ service_days' = sl[2]
    /\ metrics' = Metrics(filtered_scooters')
    /\ high_risk' = SelectRows(filtered_scooters', battery_threshold', service_days', now)
    /\ avg_uptime' = << >>
    /\ alert_summary' = << >>
    /\ all_clear_msg' = << >>
    /\ sidebar' = << >>
    /\ rendered' = {}
    /\ pressed' = {}
    /\ idx' = 0
    /\ sent_count' = 0
    /\ failed_count' = 0
    /\ transport' = << >>
    /\ clicked' = click
    /\ pc' = "tag"
    /\ UNCHANGED << TWILIO_AVAILABLE, df_scooters, now >>

\* a rerun whose cause is not tracked: any interaction, any widget values
ScriptTop == Top("untracked", Entries, Sliders, FALSE)

\* lines 393-445: risk reasons for a non-empty selection, then the KPIs
AddRiskReasons ==
    /\ pc = "tag"
    /\ high_risk' = IF Len(high_risk) > 0
                    THEN TagRows(high_risk, battery_threshold, service_days, now)
                    ELSE high_risk
    /\ avg_uptime' = << Mean(Column(filtered_scooters, "uptime_percentage")) >>
    /\ pc' = "alerts"
    /\ UNCHANGED << clicked, entered, TWILIO_AVAILABLE, df_scooters, now, twilio_configured, twilio_creds,
                    manager_input, filtered_scooters, battery_threshold, service_days,
                    metrics, alert_summary, all_clear_msg, sidebar, rendered, pressed,
                    idx, sent_count, failed_count, transport >>

(* ----------------------- alert composition (501-587) ------------------ *)
\* lines 503-520: the counts re-evaluate the four conditions on high_risk
AlertSummary(rows, bt, sd, t) ==
    LET Battery(r) == LowBattery(r.unit, bt)
        Faults(r) == MultipleFaults(r.unit)
        Up(r) == LowUptime(r.unit)
        Service(r) == ServiceDue(r.unit, sd, t)
    IN [high_risk |-> Len(rows),
        low_battery |-> Len(SelectSeq(rows, Battery)),
        high_fault_reports |-> Len(SelectSeq(rows, Faults)),
        low_uptime |-> Len(SelectSeq(rows, Up)),
        service_overdue |-> Len(SelectSeq(rows, Service)),
        time |-> t]

\* lines 576-587
AllClearMsg(m, t) ==
    [total_scooters |-> m.total_fleet, utilization |-> m.utilization_rate,
     active_rides |-> m.active_scooters, time |-> t]

\* the test without its length half
HasAlerts_InLocalsOnly(rows) == TRUE

\* line 502: 'high_risk' in locals() and len(high_risk) > 0
HasAlerts(rows) == Len(rows) > 0

\* one sidebar element: its level, its fixed text, and what it is filled with
Msg(level, text, to, n) == [level |-> level, text |-> text, to |-> to, n |-> n]

\* phone[-4:]
Last4(phone) ==
    CASE phone = "+1000" -> "1000"
      [] phone = "+1001" -> "1001"
      [] OTHER -> phone

\* the guard with the attribute's value left unread
ChannelReady_AttributeOnly == TWILIO_AVAILABLE /\ Len(twilio_configured) > 0

\* line 525 / 571: TWILIO_AVAILABLE and hasattr(...) and twilio_configured
ChannelReady ==
    TWILIO_AVAILABLE /\ Len(twilio_configured) > 0 /\ twilio_configured[1]

\* lines 561-565: what the risk branch shows when the channel is not ready
ChannelUnavailableMsg ==
    IF TWILIO_AVAILABLE
    THEN Msg("warning", "Configure Twilio credentials above to send SMS alerts", "", 0)
    ELSE Msg("info", "Alert summary generated! Install Twilio package for SMS functionality.", "", 0)

\* lines 501-587, up to the try of either send loop.  b_alerts, b_sms and
\* b_clear are what the three st.sidebar.button calls return in this run;
\* they are inputs of the run here, as the widget library decides them.
SendAlertsBlock(b_alerts, b_sms, b_clear) ==
    /\ pc = "alerts"
    /\ IF ~b_alerts
       THEN /\ pc' = "done"
            /\ rendered' = {"Send Alerts"}
            /\ pressed' = {}
            /\ UNCHANGED << alert_summary, all_clear_msg, sidebar >>
       ELSE IF HasAlerts(high_risk)
       THEN /\ alert_summary' =
                 << AlertSummary(high_risk, battery_threshold, service_days, now) >>
            /\ UNCHANGED all_clear_msg
            /\ IF ChannelReady
               THEN /\ rendered' = {"Send Alerts", "Send SMS Alerts"}
                    /\ sidebar' = << Msg("text_area", "Alert Message Preview:", "", 0) >>
                    /\ pressed' = {"Send Alerts"}
                                  \cup (IF b_sms THEN {"Send SMS Alerts"} ELSE {})
                    /\ pc' = IF b_sms THEN "sms_client" ELSE "done"
               ELSE /\ rendered' = {"Send Alerts"}
                    /\ sidebar' = << Msg("text_area", "Alert Message Preview:", "", 0),
                                     ChannelUnavailableMsg >>
                    /\ pressed' = {"Send Alerts"}
                    /\ pc' = "done"
       ELSE /\ UNCHANGED alert_summary
            /\ sidebar' = << Msg("info", "No alerts to send - all systems operational!", "", 0) >>
            /\ IF ChannelReady
               THEN /\ rendered' = {"Send Alerts", "Send All-Clear SMS"}
                    /\ pressed' = {"Send Alerts"}
                                  \cup (IF b_clear THEN {"Send All-Clear SMS"} ELSE {})
                    /\ all_clear_msg' = IF b_clear THEN << AllClearMsg(metrics, now) >>
                                        ELSE all_clear_msg
                    /\ pc' = IF b_clear THEN "clear_client" ELSE "done"
               ELSE /\ rendered' = {"Send Alerts"}
                    /\ pressed' = {"Send Alerts"}
                    /\ UNCHANGED all_clear_msg
                    /\ pc' = "done"
    /\ UNCHANGED << clicked, entered, TWILIO_AVAILABLE, df_scooters, now, twilio_configured, twilio_creds,
                    manager_input, filtered_scooters, battery_threshold, service_days,
                    metrics, avg_uptime, high_risk, idx, sent_count, failed_count,
                    transport >>

SendAlerts == \E b_alerts \in BOOLEAN, b_sms \in BOOLEAN, b_clear \in BOOLEAN :
                 SendAlertsBlock(b_alerts, b_sms, b_clear)

(* --------------------------- SMS dispatch ----------------------------- *)
\* creds = st.session_state.twilio_creds
Creds == twilio_creds[1]

\* one call of client.messages.create(body, from_, to) and whether it returned
Call(body, phone, ok) ==
    [account_sid |-> Creds.account_sid, auth_token |-> Creds.auth_token,
     from_ |-> Creds.phone_number, to |-> phone, body |-> body, ok |-> ok]

\* lines 529-534: Client(...) returns, or raises into the outer except (557-559)
SmsClient ==
    /\ pc = "sms_client"
    /\ \/ /\ sent_count' = 0
          /\ failed_count' = 0
          /\ idx' = 1
          /\ pc' = "sms_loop"
          /\ UNCHANGED sidebar
       \/ /\ sidebar' = sidebar \o << Msg("error", "Twilio Error", "", 0),
                                      Msg("info", "Check your Twilio credentials and phone numbers", "", 0) >>
          /\ pc' = "done"
          /\ UNCHANGED << idx, sent_count, failed_count >>
    /\ UNCHANGED << clicked, entered, TWILIO_AVAILABLE, df_scooters, now, twilio_configured, twilio_creds,
                    manager_input, filtered_scooters, battery_threshold, service_days,
                    metrics, avg_uptime, high_risk, alert_summary, all_clear_msg,
                    rendered, pressed, transport >>

\* SmsSend with a failed recipient tried again instead of passed over
SmsSend_RetryFailed ==
    /\ pc = "sms_loop"
    /\ idx <= Len(Creds.manager_phones)
    /\ \E ok \in BOOLEAN :
         /\ transport' = Append(transport, Call("alert_summary", Creds.manager_phones[idx], ok))
         /\ idx' = IF ok THEN idx + 1 ELSE idx
         /\ sent_count' = IF ok THEN sent_count + 1 ELSE sent_count
         /\ failed_count' = IF ok THEN failed_count ELSE failed_count + 1
    /\ UNCHANGED << clicked, entered, TWILIO_AVAILABLE, df_scooters, now, twilio_configured, twilio_creds, pc,
                    manager_input, filtered_scooters, battery_threshold, service_days,
                    metrics, avg_uptime, high_risk, alert_summary, all_clear_msg,
                    rendered, pressed, sidebar >>

\* lines 537-549: one iteration of the loop over creds['manager_phones']
SmsSend ==
    /\ pc = "sms_loop"
    /\ idx <= Len(Creds.manager_phones)
    /\ LET phone == Creds.manager_phones[idx]
       IN IF Truthy(phone)
          THEN \E ok \in BOOLEAN :
                 /\ transport' = Append(transport, Call("alert_summary", phone, ok))
                 /\ IF ok
                    THEN /\ sent_count' = sent_count + 1
                         /\ sidebar' = Append(sidebar, Msg("success", "SMS sent to", Last4(phone), 0))
                         /\ UNCHANGED failed_count
                    ELSE /\ failed_count' = failed_count + 1
                         /\ sidebar' = Append(sidebar, Msg("error", "Failed to send to", Last4(phone), 0))
                         /\ UNCHANGED sent_count
          ELSE UNCHANGED << transport, sent_count, failed_count, sidebar >>
    /\ idx' = idx + 1
    /\ UNCHANGED << clicked, entered, TWILIO_AVAILABLE, df_scooters, now, twilio_configured, twilio_creds, pc,
                    manager_input, filtered_scooters, battery_threshold, service_days,
                    metrics, avg_uptime, high_risk, alert_summary, all_clear_msg,
                    rendered, pressed >>

\* lines 551-555: the summary after the loop
SmsSummary ==
    /\ pc = "sms_loop"
    /\ idx > Len(Creds.manager_phones)
    /\ sidebar' = sidebar
         \o (IF sent_count > 0
             THEN << Msg("success", "Alert sent to manager(s)", "", sent_count) >> ELSE << >>)
         \o (IF failed_count > 0
             THEN << Msg("warning", "message(s) failed to send", "", failed_count) >> ELSE << >>)
    /\ pc' = "done"
    /\ UNCHANGED << clicked, entered, TWILIO_AVAILABLE, df_scooters, now, twilio_configured, twilio_creds,
                    manager_input, filtered_scooters, battery_threshold, service_days,
                    metrics, avg_uptime, high_risk, alert_summary, all_clear_msg,
                    rendered, pressed, idx, sent_count, failed_count, transport >>

\* lines 589-590: Client(...) returns, or raises into the except (599-600)
AllClearClient ==
    /\ pc = "clear_client"
    /\ \/ /\ idx' = 1
          /\ pc' = "clear_loop"
          /\ UNCHANGED sidebar
       \/ /\ sidebar' = Append(sidebar, Msg("error", "Error", "", 0))
          /\ pc' = "done"
          /\ UNCHANGED idx
    /\ UNCHANGED << clicked, entered, TWILIO_AVAILABLE, df_scooters, now, twilio_configured, twilio_creds,
                    manager_input, filtered_scooters, battery_threshold, service_days,
                    metrics, avg_uptime, high_risk, alert_summary, all_clear_msg,
                    rendered, pressed, sent_count, failed_count, transport >>

\* lines 591-597 and 599-600: one iteration; a raise leaves the loop
AllClearSend ==
    /\ pc = "clear_loop"
    /\ idx <= Len(Creds.manager_phones)
    /\ LET phone == Creds.manager_phones[idx]
       IN IF Truthy(phone)
          THEN \E ok \in BOOLEAN :
                 /\ transport' = Append(transport, Call("all_clear_msg", phone, ok))
                 /\ IF ok
                    THEN /\ idx' = idx + 1
                         /\ UNCHANGED << sidebar, pc >>
                    ELSE /\ sidebar' = Append(sidebar, Msg("error", "Error", "", 0))
                         /\ pc' = "done"
                         /\ UNCHANGED idx
          ELSE /\ idx' = idx + 1
               /\ UNCHANGED << transport, sidebar, pc >>
    /\ UNCHANGED << clicked, entered, TWILIO_AVAILABLE, df_scooters, now, twilio_configured, twilio_creds,
                    manager_input, filtered_scooters, battery_threshold, service_days,
                    metrics, avg_uptime, high_risk, alert_summary, all_clear_msg,
                    rendered, pressed, sent_count, failed_count >>

\* line 598: the loop ran to its end
AllClearDone ==
    /\ pc = "clear_loop"
    /\ idx > Len(Creds.manager_phones)
    /\ sidebar' = Append(sidebar, Msg("success", "All-clear notification sent!", "", 0))
    /\ pc' = "done"
    /\ UNCHANGED << clicked, entered, TWILIO_AVAILABLE, df_scooters, now, twilio_configured, twilio_creds,
                    manager_input, filtered_scooters, battery_threshold, service_days,
                    metrics, avg_uptime, high_risk, alert_summary, all_clear_msg,
                    rendered, pressed, idx, sent_count, failed_count, transport >>

\* the script reaches its end: its locals and its output are gone with the
\* next rerun; session state, the clock and the page's buttons stay
ScriptEnd ==
    /\ pc = "done"
    /\ pc' = "idle"
    /\ manager_input' = [i \in 1..NumManagers |-> ""]
    /\ filtered_scooters' = << >>
    /\ battery_threshold' = 20
    /\ service_days' = 60
    /\ metrics' = NoMetrics
    /\ avg_uptime' = << >>
    /\ high_risk' = << >>
    /\ alert_summary' = << >>
    /\ all_clear_msg' = << >>
    /\ sidebar' = << >>
    /\ pressed' = {}
    /\ idx' = 0
    /\ sent_count' = 0
    /\ failed_count' = 0
    /\ transport' = << >>
    /\ clicked' = "none"
    /\ entered' = << >>
    /\ UNCHANGED << TWILIO_AVAILABLE, df_scooters, now, twilio_configured, twilio_creds,
                    rendered >>

Next ==
    \/ Tick
    \/ ScriptTop
    \/ AddRiskReasons
    \/ SendAlerts
    \/ SmsClient
    \/ SmsSend
    \/ SmsSummary
    \/ AllClearClient
    \/ AllClearSend
    \/ AllClearDone
    \/ ScriptEnd

Spec == Init /\ [][Next]_vars

(* ------------------- the script under the rerun rule ------------------- *)
\* the buttons the three st.sidebar.button calls of the alert block create
Buttons == {"Send Alerts", "Send SMS Alerts", "Send All-Clear SMS"}

\* what makes the script run again: a click on a button of the page the last
\* run left, or any other interaction ("none": an edit, a slider, a load)
TopClick == \E b \in {"none"} \cup rendered : Top(b, Entries, Sliders, FALSE)

\* lines 501-600 when a button reads True only in the run its click caused
SendAlertsRerun ==
    SendAlertsBlock(clicked = "Send Alerts",
                    clicked = "Send SMS Alerts",
                    clicked = "Send All-Clear SMS")

NextRerun ==
    \/ Tick
    \/ TopClick
    \/ AddRiskReasons
    \/ SendAlertsRerun
    \/ ScriptEnd

SpecRerun == Init /\ [][NextRerun]_vars

(* --------------- the script while the operator retypes ---------------- *)
\* the Account SID box over several runs: left empty, typed, typed anew
EditedSids == Sids \cup {"ACyy"}
\* the Twilio Phone Number box: the number, or another one typed later
EditedNumbers == {TwilioNumber, "+1556"}
EditedEntries ==
    [account_sid : EditedSids, auth_token : Tokens, phone_number : EditedNumbers]

\* a rerun with the sliders left at their defaults (lines 189, 196) and the
\* text inputs of the run kept
TopEdited == Top("untracked", EditedEntries, {<<20, 60>>}, TRUE)

NextEdited ==
    \/ TopEdited
    \/ AddRiskReasons
    \/ SendAlerts
    \/ SmsClient
    \/ SmsSend
    \/ SmsSummary
    \/ AllClearClient
    \/ AllClearSend
    \/ AllClearDone
    \/ ScriptEnd

SpecEdited == Init /\ [][NextEdited]_vars

(* ============================== claims ================================ *)
\* the recipients a dispatch of this run is handed: the manager inputs that
\* are not blank, in manager order, one per occurrence
NonBlank(inputs) == LET NotBlank(x) == x # "" IN SelectSeq(inputs, NotBlank)
Recipients == NonBlank(manager_input)
\* the addresses delivery was attempted to, in the order of the attempts
Attempted == [k \in 1..Len(transport) |-> transport[k].to]
IsPrefix(a, b) == Len(a) <= Len(b) /\ a = SubSeq(b, 1, Len(a))
SentOk == LET Ok(c) == c.ok IN Len(SelectSeq(transport, Ok))
Raised == LET Bad(c) == ~c.ok IN Len(SelectSeq(transport, Bad))
\* a send loop was entered in this run and the run is over
RiskDispatchOver == pc = "done" /\ idx > 0 /\ "Send SMS Alerts" \in pressed
AllClearDispatchOver == pc = "done" /\ idx > 0 /\ "Send All-Clear SMS" \in pressed
DispatchOver == RiskDispatchOver \/ AllClearDispatchOver

\* C1: in every dispatch (risk alert or all-clear) a failed delivery attempt
\* never prevents the attempt to a later non-blank recipient: once the
\* dispatch is over, every non-blank recipient has been attempted, whatever
\* attempts failed.
C1_NoShortCircuit ==
    (DispatchOver /\ Raised > 0) => Attempted = Recipients

\* C2: one risk-alert dispatch attempts each non-blank manager entry exactly
\* once, in order, and no blank entry: while the loop runs the attempts are a
\* prefix of the non-blank entries (no retry, no blank), each attempt raises
\* exactly one of the two counters, and when the loop is over the attempts are
\* all the non-blank entries, duplicates once per occurrence.
C2_OneAttemptPerNonBlank ==
    ("Send SMS Alerts" \in pressed) =>
        /\ IsPrefix(Attempted, Recipients)
        /\ sent_count + failed_count = Len(transport)
        /\ \A k \in 1..Len(transport) : transport[k].to # ""
        /\ RiskDispatchOver =>
             /\ Attempted = Recipients
             /\ Len(transport) = Cardinality({ i \in 1..NumManagers : manager_input[i] # "" })

\* a finished risk dispatch over a list with a blank entry and a duplicate
\* address, one of whose attempts failed
C2_Witness ==
    /\ RiskDispatchOver
    /\ manager_input = <<"+1000", "", "+1000">>
    /\ Len(transport) = 2
    /\ failed_count = 1

\* the channel as the claim describes it: package missing, or the
\* twilio_configured attribute absent or false
ChannelUnavailable ==
    \/ ~TWILIO_AVAILABLE
    \/ twilio_configured = << >>
    \/ twilio_configured = <<FALSE>>
IsUnavailableNotice(m) ==
    \/ m.text = "Configure Twilio credentials above to send SMS alerts"
    \/ m.text = "Alert summary generated! Install Twilio package for SMS functionality."
UnavailableShown == \E k \in 1..Len(sidebar) : IsUnavailableNotice(sidebar[k])
\* what a configured dispatch over an empty recipient list leaves in the
\* sidebar: no per-recipient line and no summary line
EmptyDispatchShown ==
    IF Len(high_risk) > 0
    THEN << Msg("text_area", "Alert Message Preview:", "", 0) >>
    ELSE << Msg("info", "No alerts to send - all systems operational!", "", 0),
            Msg("success", "All-clear notification sent!", "", 0) >>

CondsAt(u, t) ==
    (IF u.battery_level < battery_threshold THEN {"Low Battery; "} ELSE {})
    \cup (IF u.fault_reports >= 3 THEN {"Multiple Faults; "} ELSE {})
    \cup (IF u.uptime_percentage < 85 THEN {"Low Uptime; "} ELSE {})
    \cup (IF (t - u.last_service) \div TicksPerDay > service_days
          THEN {"Service Due; "} ELSE {})
Occurrences(u) == Cardinality({ i \in 1..Len(high_risk) : high_risk[i].unit = u })
\* the selection holds exactly the units with a condition, once each
SelectedExactly ==
    /\ \A u \in Range(filtered_scooters) :
         Occurrences(u) = IF CondsAt(u, now) # {} THEN 1 ELSE 0
    /\ \A i \in 1..Len(high_risk) : high_risk[i].unit \in Range(filtered_scooters)
\* every row carries exactly the reasons of the conditions that hold, once each
TaggedExactly ==
    \A i \in 1..Len(high_risk) :
        /\ Range(high_risk[i].risk_reason) = CondsAt(high_risk[i].unit, now)
        /\ Len(high_risk[i].risk_reason) = Cardinality(CondsAt(high_risk[i].unit, now))

\* C4: for every unit list and threshold pair, the selection step puts a unit
\* into the high-risk list exactly once if at least one of the four
\* conditions holds for it and not at all otherwise, and the tagging step
\* gives each listed unit exactly the reasons of the conditions that hold,
\* all of them and no other (each step against the clock value it reads).
C4_ExactRiskSet ==
    [][ /\ (pc = "idle" /\ pc' = "tag") => SelectedExactly'
        /\ (pc = "tag" /\ pc' = "alerts") => TaggedExactly' ]_vars

\* tagged: a unit with low battery and three faults carries both reasons and
\* a unit of the list under evaluation is left out
C4_Witness ==
    /\ pc = "alerts"
    /\ \E i \in 1..Len(high_risk) :
         /\ high_risk[i].unit.battery_level < battery_threshold
         /\ high_risk[i].unit.fault_reports >= 3
         /\ high_risk[i].risk_reason = <<"Low Battery; ", "Multiple Faults; ">>
    /\ Len(high_risk) < Len(filtered_scooters)

RiskComposed == alert_summary # << >>
AllClearComposed == all_clear_msg # << >>

\* C5 as claimed: on the send-alerts action a risk message is composed iff
\* the flagged list is non-empty and an all-clear message iff it is empty.
C5_Original ==
    (pc = "done" /\ "Send Alerts" \in pressed) =>
        /\ RiskComposed <=> Len(high_risk) > 0
        /\ AllClearComposed <=> Len(high_risk) = 0

\* C5 amended: a risk message is composed iff Send Alerts is pressed and the
\* flagged list is non-empty; an all-clear message is composed only for an empty
\* flagged list, and then exactly when the channel is configured and Send
\* All-Clear SMS is pressed; no run composes both; the all-clear message
\* carries total units, utilization and active rides, also at zero.
C5_MessageKinds ==
    /\ RiskComposed <=> ("Send Alerts" \in pressed /\ Len(high_risk) > 0)
    /\ AllClearComposed <=>
         /\ "Send Alerts" \in pressed
         /\ Len(high_risk) = 0
         /\ ~ChannelUnavailable
         /\ "Send All-Clear SMS" \in pressed
    /\ ~(RiskComposed /\ AllClearComposed)
    /\ ("Send Alerts" \in pressed /\ Len(high_risk) = 0) => ~RiskComposed
    /\ AllClearComposed =>
         LET OnTrip(u) == u.status = "On Trip"
             active == Len(SelectSeq(filtered_scooters, OnTrip))
             m == all_clear_msg[1]
         IN /\ m.total_scooters = Len(filtered_scooters)
            /\ m.active_rides = active
            /\ m.utilization.num * Len(filtered_scooters) = active * 100 * m.utilization.den
            /\ m.utilization.den > 0

\* an all-clear message composed for a non-empty fleet with nothing on trip
C5_Witness ==
    /\ AllClearComposed
    /\ all_clear_msg[1].total_scooters > 0
    /\ all_clear_msg[1].utilization.num = 0

Tagged(tag) == Cardinality({ i \in 1..Len(high_risk) :
                              \E k \in 1..Len(high_risk[i].risk_reason) :
                                  high_risk[i].risk_reason[k] = tag })

\* C6: in every composed risk alert the total equals the number of flagged
\* units and each per-reason count equals the number of flagged units that
\* carry that reason tag, so each count is at most the total and the four
\* counts sum to at least the total.
C6_CountsMatchTags ==
    RiskComposed =>
        LET a == alert_summary[1]
        IN /\ a.high_risk = Len(high_risk)
           /\ a.low_battery = Tagged("Low Battery; ")
           /\ a.high_fault_reports = Tagged("Multiple Faults; ")
           /\ a.low_uptime = Tagged("Low Uptime; ")
           /\ a.service_overdue = Tagged("Service Due; ")
           /\ \A c \in {a.low_battery, a.high_fault_reports, a.low_uptime,
                        a.service_overdue} : c <= a.high_risk
           /\ a.low_battery + a.high_fault_reports + a.low_uptime + a.service_overdue
                >= a.high_risk

IsZero(m) == ~IsNaN(m) /\ m.num = 0

\* C7: aggregation over an empty unit list gives total 0, every status count
\* 0, utilization 0, mean revenue and mean uptime defined as zero and an empty
\* per-hub rollup; over a non-empty list utilization is count(On Trip)/total.
C7_EmptyAggregate ==
    /\ (pc \in {"tag", "alerts", "done"} /\ filtered_scooters = << >>) =>
         /\ metrics.total_fleet = 0
         /\ metrics.active_scooters = 0
         /\ metrics.available_scooters = 0
         /\ metrics.maintenance_scooters = 0
         /\ IsZero(metrics.utilization_rate)
         /\ IsZero(metrics.avg_revenue)
         /\ avg_uptime # << >> => IsZero(avg_uptime[1])
         /\ DOMAIN metrics.hub_stats = {}
    /\ (pc \in {"tag", "alerts", "done"} /\ filtered_scooters # << >>) =>
         /\ metrics.utilization_rate.den = metrics.total_fleet
         /\ metrics.utilization_rate.num = 100 * metrics.active_scooters

\* the per-recipient lines of the sidebar, in order: Sent or Failed, and to whom
IsOutcome(m) == m.text \in {"SMS sent to", "Failed to send to"}
Outcomes == LET lines == SelectSeq(sidebar, IsOutcome)
            IN [k \in 1..Len(lines) |->
                   [to |-> lines[k].to, sent |-> lines[k].text = "SMS sent to"]]

\* C8: when a dispatch (risk alert or all-clear) has attempted all
\* recipients, sent is the number of attempts that returned, failed the
\* number that raised, sent + failed the number of non-blank recipients, and
\* the per-recipient outcomes are recorded one per attempt in input order.
C8_DeliveryReport ==
    (DispatchOver /\ Attempted = Recipients) =>
        /\ sent_count = SentOk
        /\ failed_count = Raised
        /\ sent_count + failed_count = Len(Recipients)
        /\ Outcomes = [k \in 1..Len(transport) |->
                          [to |-> Last4(transport[k].to), sent |-> transport[k].ok]]

\* the outcome a finished run shows
ChannelErrorShown == \E k \in 1..Len(sidebar) : sidebar[k].text \in {"Twilio Error", "Error"}
Shown(text) == \E k \in 1..Len(sidebar) : sidebar[k].text = text
AllSentShown ==
    \/ Shown("Alert sent to manager(s)") /\ ~Shown("message(s) failed to send")
    \/ Shown("All-clear notification sent!")
PartialFailureShown == Shown("Alert sent to manager(s)") /\ Shown("message(s) failed to send")
AllFailedShown == ~Shown("Alert sent to manager(s)") /\ Shown("message(s) failed to send")
Bit(b) == IF b THEN 1 ELSE 0

\* C9: once any delivery attempt has been made the invocation ends in exactly
\* one of AllSent (no failure), PartialFailure (some sent, some failed) or
\* AllFailed (none sent) and never in the channel-level error outcome, which
\* is reached only before any attempt.
C9_StateMachine ==
    /\ ChannelErrorShown => transport = << >>
    /\ (pc = "done" /\ Len(transport) > 0) =>
         /\ Bit(AllSentShown) + Bit(PartialFailureShown) + Bit(AllFailedShown) = 1
         /\ AllSentShown <=> Raised = 0
         /\ PartialFailureShown <=> (SentOk > 0 /\ Raised > 0)
         /\ AllFailedShown <=> SentOk = 0

\* C10: within one evaluation cycle the ServiceOverdue decision of the
\* selection, the Service Due tag and the Service Overdue count agree however
\* the clock advances between the steps: at tagging no unit left out of the
\* list is overdue, and the count of the alert equals the number of tags.
C10_OneNow ==
    [][ /\ (pc = "tag" /\ pc' = "alerts") =>
             \A u \in Range(filtered_scooters) :
                 Occurrences(u) = 0 => ~("Service Due; " \in CondsAt(u, now))
        /\ (pc = "alerts" /\ RiskComposed') =>
             alert_summary'[1].service_overdue = Tagged("Service Due; ") ]_vars

\* C11: under the rerun rule, with the channel configured and a manager phone
\* set, the run caused by a click on "Send SMS Alerts" or "Send All-Clear
\* SMS" (buttons only a click on "Send Alerts" reveals) is a run in which
\* delivery is attempted: the clicked inner button is read, reads True and
\* its send block is entered.
InnerButtons == {"Send SMS Alerts", "Send All-Clear SMS"}
C11_SendLoopReachable ==
    (/\ pc = "done"
     /\ clicked \in InnerButtons
     /\ ~ChannelUnavailable
     /\ Recipients # << >>)
        => clicked \in pressed

\* C12: whatever the operator typed, cleared or retyped in earlier runs,
\* (a) twilio_configured is True exactly when the Account SID and the Auth
\* Token typed in this run are both non-empty, (b) when it is True the stored
\* credentials are the ones typed in this run, with the non-empty manager
\* inputs of this run in manager order, (c) every delivery attempt of the run
\* uses the SID, token and sender typed in this run and goes to the non-blank
\* manager inputs of this run in order, and (d) a stored manager list, fresh
\* or stale, never holds an empty entry.
Typed == entered[1]
TypedCreds ==
    [account_sid |-> Typed.account_sid, auth_token |-> Typed.auth_token,
     phone_number |-> Typed.phone_number, manager_phones |-> Recipients]
UsesTyped(c) ==
    /\ c.account_sid = Typed.account_sid
    /\ c.auth_token = Typed.auth_token
    /\ c.from_ = Typed.phone_number
C12_CurrentCredentials ==
    /\ entered # << >> =>
         /\ twilio_configured = << Typed.account_sid # "" /\ Typed.auth_token # "" >>
         /\ twilio_configured = <<TRUE>> => twilio_creds = << TypedCreds >>
    /\ transport # << >> =>
         /\ entered # << >>
         /\ twilio_configured = <<TRUE>>
         /\ \A k \in 1..Len(transport) : UsesTyped(transport[k])
         /\ IsPrefix(Attempted, Recipients)
    /\ twilio_creds # << >> =>
         \A j \in 1..Len(Creds.manager_phones) : Creds.manager_phones[j] # ""

\* a finished dispatch with the retyped SID and one manager box left empty
C12_Witness ==
    /\ pc = "done"
    /\ entered # << >>
    /\ Typed.account_sid = "ACyy"
    /\ manager_input[2] = ""
    /\ Len(transport) = 2
    /\ Attempted = Recipients

====
